---- MODULE Spec2Model ----
(***************************************************************************)
(* Model of the student_grader package of pokemon-battle-sim (p4):         *)
(*   - grading.check and its helpers (grading.py)                          *)
(*   - code_execution.execute_code and its deadline timer                  *)
(* Source text of a cell is abstracted to what the code inspects: whether  *)
(* it starts with "Points possible", which student_grader.check("...")     *)
(* call it contains, whether it compiles, the statements it runs, the      *)
(* calls its syntax tree contains and how long it runs.                    *)
(***************************************************************************)
EXTENDS Integers, Sequences, FiniteSets, TLC

\* ------------------------------------------------------------------------
\* Bounds of the model
\* ------------------------------------------------------------------------
MaxPrior == 2
MaxTail == 3

\* ------------------------------------------------------------------------
\* Program constants
\* ------------------------------------------------------------------------
CODE_MAX_EXECUTION_TIME == 2
CODE_CELL_OFFSET_STUDENT == 1
CHECK_CELL_OFFSET_STUDENT == 2

CUR_QUESTION_ERROR_PREFIX == "CUR_QUESTION_ERROR_PREFIX"
ABOVE_QUESTION_ERROR_PREFIX == "ABOVE_QUESTION_ERROR_PREFIX"
ASSERTION_FAILED_PREFIX == "ASSERTION_FAILED_PREFIX"
MISSED_REQ_FUNC_FORMAT == "MISSED_REQ_FUNC_FORMAT"
MISSED_REQ_VAR_FORMAT == "MISSED_REQ_VAR_FORMAT"
TIMEOUT_MSG == "Execution timed out in our grader system."

\* ------------------------------------------------------------------------
\* Values, environments, snippets
\* ------------------------------------------------------------------------
\* Values bound to names are integers; Absent marks a key that is not in
\* the dict, BuiltinsModule the value exec binds to __builtins__.
Absent == -1
BuiltinsModule == 0
Forever == -1
Names == {"x", "len", "__builtins__"}
NameOrder == <<"__builtins__", "x", "len">>

\* Mutation: the name exec inserts counts as a built-in identifier.
builtin_identifiers_with_dunder == {"len", "abs", "__builtins__"}

\* dir(builtins), as far as the names of the model go
builtin_identifiers == {"len", "abs"}

\* A name may also be bound to a list.  The list is an object of its own:
\* the dict holds the reference ListRef, and the object's content (its
\* number of elements) is kept under ObjCell, which is not a key of the dict.
ListRef == 100
ObjCell == "@list"
EmptyEnv == [n \in Names \cup {ObjCell} |-> Absent]

\* The value a dict entry denotes: for a list, the content the object has
\* in the heap the entry is read against.
Deref(v, heap) == IF v = ListRef THEN <<"list", heap[ObjCell]>> ELSE <<"int", v>>

Stmt(op, name, val, calls) == [op |-> op, name |-> name, val |-> val, calls |-> calls]
Assign(name, val) == Stmt("assign", name, val, {})
AssignCall(name, val, f) == Stmt("assign", name, val, {f})
Del(name) == Stmt("del", name, 0, {})
Raise == Stmt("raise", "", 0, {})
Exit == Stmt("exit", "", 0, {"exit"})
AssertEq(name, val) == Stmt("assert", name, val, {})
ListAppend(name) == Stmt("append", name, 0, {name \o ".append"})

\* A source text: marker = starts with "Points possible"; ref = the q_id of
\* the student_grader.check("<q_id>") call it contains ("none" if it
\* contains no grader.check at all); syntax_ok = it compiles; body = the
\* statements it runs; time = seconds it runs for (Forever: never ends).
Source(marker, ref, syntax_ok, body, time) ==
  [marker |-> marker, ref |-> ref, syntax_ok |-> syntax_ok, body |-> body, time |-> time]
Code(body) == Source(FALSE, "none", TRUE, body, 0)
Cell(cell_type, source) == [cell_type |-> cell_type, source |-> source]

\* ------------------------------------------------------------------------
\* exec(code, global_vars)
\* ------------------------------------------------------------------------
RECURSIVE RunFrom(_, _, _)
RunFrom(body, k, env) ==
  IF k > Len(body) THEN [env |-> env, fault |-> "none", msg |-> ""]
  ELSE LET s == body[k] IN
    CASE s.op = "assign" -> RunFrom(body, k + 1, [env EXCEPT ![s.name] = s.val])
      [] s.op = "del" ->
           IF env[s.name] = Absent
           THEN [env |-> env, fault |-> "Exception", msg |-> "NameError"]
           ELSE RunFrom(body, k + 1, [env EXCEPT ![s.name] = Absent])
      [] s.op = "assert" ->
           IF env[s.name] = Absent
           THEN [env |-> env, fault |-> "Exception", msg |-> "NameError"]
           ELSE IF env[s.name] # s.val
           THEN [env |-> env, fault |-> "Exception", msg |-> "AssertionError"]
           ELSE RunFrom(body, k + 1, env)
      [] s.op = "append" ->
           IF env[s.name] = Absent
           THEN [env |-> env, fault |-> "Exception", msg |-> "NameError"]
           ELSE IF env[s.name] # ListRef
           THEN [env |-> env, fault |-> "Exception", msg |-> "AttributeError"]
           ELSE RunFrom(body, k + 1, [env EXCEPT ![ObjCell] = @ + 1])
      [] s.op = "raise" -> [env |-> env, fault |-> "Exception", msg |-> "boom"]
      [] s.op = "exit" -> [env |-> env, fault |-> "BaseException", msg |-> "SystemExit"]
      [] OTHER -> RunFrom(body, k + 1, env)

\* exec inserts __builtins__ into the globals dict, compiles, then runs.
PyExec(code, env) ==
  LET env0 == [env EXCEPT !["__builtins__"] = BuiltinsModule] IN
  IF ~code.syntax_ok THEN [env |-> env0, fault |-> "Exception", msg |-> "SyntaxError"]
  ELSE IF code.time = Forever THEN [env |-> env0, fault |-> "hang", msg |-> ""]
  ELSE RunFrom(code.body, 1, env0)

\* ------------------------------------------------------------------------
\* execute_code
\* ------------------------------------------------------------------------
\* The loop over before_exec_globals: one "modified" warning per key whose
\* value differs; indexing after_exec_globals with a deleted key raises.
\* Both snapshots are shallow copies (dict.copy()), so a list held by the
\* snapshot is the very object the snippet worked on: != compares the
\* content the object has now on both sides.
RECURSIVE ModifiedLoop(_, _, _, _)
ModifiedLoop(before, after, k, acc) ==
  IF k > Len(NameOrder) THEN [warnings |-> acc, keyerror |-> FALSE]
  ELSE LET var == NameOrder[k] IN
    IF before[var] = Absent THEN ModifiedLoop(before, after, k + 1, acc)
    ELSE IF after[var] = Absent THEN [warnings |-> acc, keyerror |-> TRUE]
    ELSE IF Deref(before[var], after) # Deref(after[var], after)
    THEN ModifiedLoop(before, after, k + 1, Append(acc, <<"Global variable modified", var>>))
    ELSE ModifiedLoop(before, after, k + 1, acc)

RECURSIVE BuiltinLoop(_, _, _, _)
BuiltinLoop(before, after, k, acc) ==
  IF k > Len(NameOrder) THEN acc
  ELSE LET var_name == NameOrder[k] IN
    IF after[var_name] # Absent /\ before[var_name] = Absent
       /\ var_name \in builtin_identifiers
    THEN BuiltinLoop(before, after, k + 1, Append(acc, <<"Built-in function modified", var_name>>))
    ELSE BuiltinLoop(before, after, k + 1, acc)

\* Result of one execute_code call: outcome "returned", "raised" (an
\* exception leaves execute_code) or "hung" (exec never completes).  The
\* deadline timer's handler raises in the timer's own thread, so it changes
\* nothing here (see the Timer specification below).
ExecuteCode(code, global_vars, warnings_list, errors_list, error_prefix) ==
  LET before_exec_globals == global_vars
      r == PyExec(code, global_vars)
      errs == IF r.fault = "Exception"
              THEN Append(errors_list, <<error_prefix, r.msg>>)
              ELSE errors_list
      after_exec_globals == r.env
      m == ModifiedLoop(before_exec_globals, after_exec_globals, 1, warnings_list)
  IN IF r.fault = "hang"
     THEN [outcome |-> "hung", exc |-> "none", global_vars |-> r.env,
           warnings_list |-> warnings_list, errors_list |-> errors_list]
     ELSE IF r.fault = "BaseException"
     THEN [outcome |-> "raised", exc |-> r.msg, global_vars |-> r.env,
           warnings_list |-> warnings_list, errors_list |-> errors_list]
     ELSE IF m.keyerror
     THEN [outcome |-> "raised", exc |-> "KeyError", global_vars |-> r.env,
           warnings_list |-> m.warnings, errors_list |-> errs]
     ELSE [outcome |-> "returned", exc |-> "none", global_vars |-> r.env,
           warnings_list |-> BuiltinLoop(before_exec_globals, after_exec_globals, 1, m.warnings),
           errors_list |-> errs]

\* ------------------------------------------------------------------------
\* Syntax trees (module ast) and the visitor of _does_code_use
\* ------------------------------------------------------------------------
\* A node has its class, a label (the identifier of a Name, the attribute
\* of an Attribute, the class of the operator of an operator node) and its
\* child nodes in field order; the callee of a Call is its first child.
Node(kind, label, children) == [kind |-> kind, label |-> label, children |-> children]
Name(id) == Node("Name", id, <<>>)
Literal == Node("Constant", "", <<>>)
Attribute(value, attr) == Node("Attribute", attr, <<value>>)
Call(func, args) == Node("Call", "", <<func>> \o args)
BinOp(op, left, right) == Node("BinOp", op, <<left, right>>)
BoolOp(op, left, right) == Node("BoolOp", op, <<left, right>>)
UnaryOp(op, operand) == Node("UnaryOp", op, <<operand>>)
Compare(op, left, right) == Node("Compare", op, <<left, right>>)
ExprStmt(value) == Node("Expr", "", <<value>>)
AssignStmt(id, value) == Node("Assign", "", <<Name(id), value>>)
AugAssign(op, id, value) == Node("AugAssign", op, <<Name(id), value>>)
Module(body) == Node("Module", "", body)

\* get_full_name: the dotted name of a callee, as far as it is made of
\* attribute accesses on a plain name.
RECURSIVE GetFullName(_)
GetFullName(node) ==
  IF node.kind = "Attribute"
  THEN GetFullName(node.children[1]) \o "." \o node.label
  ELSE IF node.kind = "Name" THEN node.label
  ELSE ""

\* Mutation: the visitor does not descend into the node.
ChildNodesNone(node) == <<>>

\* generic_visit: the nodes the traversal goes on to.
ChildNodes(node) == node.children

\* CustomNodeVisitor.visit and the loop of generic_visit over the children;
\* found is the visitor's flag.
RECURSIVE Visit(_, _, _), GenericVisit(_, _, _, _)
Visit(node, name, found) ==
  LET found_here ==
        IF node.kind = "Call" THEN GetFullName(node.children[1]) = name
        ELSE IF node.kind \in {"BinOp", "BoolOp", "UnaryOp"} THEN node.label = name
        ELSE FALSE
  IN GenericVisit(ChildNodes(node), 1, name, found \/ found_here)

GenericVisit(children, k, name, found) ==
  IF k > Len(children) THEN found
  ELSE GenericVisit(children, k + 1, name, Visit(children[k], name, found))

\* _does_code_use on a snippet given with its tree: ast.parse raises
\* SyntaxError when the snippet does not compile.
DoesCodeUseTree(code_snippet, name) ==
  IF ~code_snippet.syntax_ok
  THEN [raised |-> TRUE, found |-> FALSE]
  ELSE [raised |-> FALSE, found |-> Visit(code_snippet.tree, name, FALSE)]

\* ------------------------------------------------------------------------
\* _does_code_use and _check_student_code_against_requirements
\* ------------------------------------------------------------------------
\* ast.parse raises SyntaxError on a snippet that does not compile;
\* otherwise the visitor finds the name among the calls/operators of the tree
\* (the calls field of a statement lists the names the traversal of its
\* tree finds; the traversal itself is Visit above).
DoesCodeUse(code_snippet, name) ==
  IF ~code_snippet.syntax_ok
  THEN [raised |-> TRUE, found |-> FALSE]
  ELSE [raised |-> FALSE,
        found |-> \E k \in 1..Len(code_snippet.body) : name \in code_snippet.body[k].calls]

RECURSIVE RequiredFunctionsLoop(_, _, _, _)
RequiredFunctionsLoop(student_code, required_functions, k, errs) ==
  IF k > Len(required_functions) THEN [raised |-> FALSE, errors |-> errs]
  ELSE LET u == DoesCodeUse(student_code, required_functions[k]) IN
    IF u.raised THEN [raised |-> TRUE, errors |-> errs]
    ELSE RequiredFunctionsLoop(student_code, required_functions, k + 1,
           IF u.found THEN errs
           ELSE Append(errs, <<MISSED_REQ_FUNC_FORMAT, required_functions[k]>>))

RECURSIVE RequiredVarsLoop(_, _, _, _)
RequiredVarsLoop(required_vars, global_vars, k, errs) ==
  IF k > Len(required_vars) THEN errs
  ELSE RequiredVarsLoop(required_vars, global_vars, k + 1,
         IF global_vars[required_vars[k]] = Absent
         THEN Append(errs, <<MISSED_REQ_VAR_FORMAT, required_vars[k]>>)
         ELSE errs)

CheckStudentCodeAgainstRequirements(student_code, required_functions, required_vars, assertions, current_question_warnings, current_question_errors, global_vars) ==
  LET f == RequiredFunctionsLoop(student_code, required_functions, 1, current_question_errors)
      v == RequiredVarsLoop(required_vars, global_vars, 1, f.errors)
  IN IF f.raised
     THEN [outcome |-> "raised", exc |-> "SyntaxError", global_vars |-> global_vars,
           warnings_list |-> current_question_warnings, errors_list |-> f.errors]
     ELSE ExecuteCode(assertions, global_vars, current_question_warnings, v,
                      ASSERTION_FAILED_PREFIX)

\* ------------------------------------------------------------------------
\* Inputs: assignment metadata and notebooks
\* ------------------------------------------------------------------------
\* metadata.pkl: q1 is the question of the end-to-end scenarios
\* (required call abs, required variable x, assertion x == 5); q2 has no
\* requirements and an assertion that always passes.
assignment_metadata ==
  [q \in {"q1", "q2"} |->
     IF q = "q1"
     THEN [required_funcs |-> <<"abs">>, required_vars |-> <<"x">>,
           assertions |-> Code(<<AssertEq("x", 5)>>)]
     ELSE [required_funcs |-> <<>>, required_vars |-> <<>>,
           assertions |-> Code(<<>>)]]

\* Question identifiers a caller asks for; q9 is not in the metadata.
RequestedQids == {"q1", "q2", "q9"}

MarkerCell == Cell("markdown", Source(TRUE, "none", FALSE, <<>>, 0))
CheckCell(q) == Cell("code", Source(FALSE, q, TRUE, <<>>, 0))
TextCell == Cell("markdown", Source(FALSE, "none", FALSE, <<>>, 0))
CodeCell(body) == Cell("code", Code(body))

\* Cells above the question block.
PriorCells ==
  { CodeCell(<<Assign("x", 1)>>),
    CodeCell(<<Assign("len", 42)>>),
    CodeCell(<<Raise>>),
    CodeCell(<<Exit>>),
    CodeCell(<<Del("x")>>),
    Cell("code", Source(FALSE, "none", FALSE, <<>>, 0)),
    Cell("code", Source(FALSE, "none", TRUE, <<>>, Forever)),
    TextCell }

\* The code cell of the question block.  In the last one the student's
\* answer also holds the text student_grader.check("q1"): running the cell
\* calls check again, on the same notebook and with an environment of its
\* own, so the bindings the cell leaves are those of its other statements.
QuestionCells ==
  { CodeCell(<<Assign("x", 5)>>),
    CodeCell(<<AssignCall("x", 5, "abs")>>),
    CodeCell(<<AssignCall("x", 5, "abs"), Assign("len", 42)>>),
    CodeCell(<<AssignCall("x", 7, "abs")>>),
    CodeCell(<<Raise>>),
    CodeCell(<<Del("x")>>),
    CodeCell(<<Exit>>),
    Cell("code", Source(FALSE, "none", FALSE, <<>>, 0)),
    Cell("code", Source(FALSE, "none", TRUE, <<AssignCall("x", 5, "abs")>>,
                        CODE_MAX_EXECUTION_TIME + 1)),
    Cell("code", Source(FALSE, "none", TRUE, <<>>, Forever)),
    Cell("code", Source(FALSE, "q1", TRUE, <<AssignCall("x", 5, "abs")>>, 0)) }

\* Cells below the question block.
TailCells == { CodeCell(<<Assign("x", 1)>>) }

SeqsUpTo(S, n) == UNION { [1..k -> S] : k \in 0..n }

Blocks ==
  { <<>> } \cup { <<MarkerCell, c, CheckCell(q)>> : c \in QuestionCells, q \in {"q1", "q2"} }

Notebooks ==
  { p \o b \o t : p \in SeqsUpTo(PriorCells, MaxPrior), b \in Blocks,
                  t \in SeqsUpTo(TailCells, MaxTail) }

\* ------------------------------------------------------------------------
\* State of one check call
\* ------------------------------------------------------------------------
VARIABLES
  notebook,                     \* notebook.cells
  q_id,                         \* argument q_id
  is_running_from_autograder,   \* argument is_running_from_autograder
  pc,                           \* position in check
  i,                            \* loop index (1-based)
  global_vars,
  errors_in_previous_cells,
  warnings_in_previous_cells,
  current_question_errors,
  current_question_warnings,
  did_check_pass,
  retval,                       \* "pending", "None", "True" or "False"
  exc,                          \* exception that left check, or "none"
  printed,                      \* messages printed, in order
  executed,                     \* execute_code calls made, in order
  found_at,                     \* index of the matched marker cell, 0 if none
  state                         \* state of the orchestrator's state machine

\* What a check call finds around it: the package's module globals, the
\* optional argument naming the notebook file, and the files on disk.
VARIABLES
  NB_FILE_PATH,                 \* file_loaders.NB_FILE_PATH
  NB_DIR_PATH,                  \* file_loaders.NB_DIR_PATH
  overwrite_student_nb_path,    \* argument overwrite_student_nb_path
  files,                        \* paths at which a file exists
  calls,                        \* check calls begun in this kernel session
  prev_global_vars              \* global_vars as the previous call left it

setupVars == <<NB_FILE_PATH, NB_DIR_PATH, overwrite_student_nb_path, files,
               calls, prev_global_vars>>

checkVars == <<notebook, q_id, is_running_from_autograder, pc, i, global_vars,
               errors_in_previous_cells, warnings_in_previous_cells,
               current_question_errors, current_question_warnings,
               did_check_pass, retval, exc, printed, executed, found_at, state>>

\* ------------------------------------------------------------------------
\* State of the deadline timers of consecutive execute_code calls
\* ------------------------------------------------------------------------
VARIABLES
  t_pc,             \* "idle", "exec" (inside exec(code, global_vars)), "returned"
  t_calls,          \* number of execute_code calls begun
  t_code,           \* snippet of the current call
  t_remaining,      \* seconds of work the running snippet has left
  t_timers,         \* per call: state and age of its threading.Timer
  t_errors,         \* errors_list shared by the calls
  t_mark,           \* Len(errors_list) when the current call began
  t_spin,           \* parity of the iterations of a snippet that never ends
  t_thread_errors   \* calls whose timer thread died with the RuntimeError

timerVars == <<t_pc, t_calls, t_code, t_remaining, t_timers, t_errors, t_mark,
               t_spin, t_thread_errors>>

\* ------------------------------------------------------------------------
\* State of one execute_code call studied as a function of its arguments
\* ------------------------------------------------------------------------
VARIABLES
  x_pc,             \* "idle", "call", then the call's outcome
  x_code,           \* argument code
  x_global_vars,    \* argument global_vars as passed in
  x_warnings_list,  \* argument warnings_list as passed in
  x_errors_list,    \* argument errors_list as passed in
  x_error_prefix,   \* argument error_prefix
  x_result          \* the arguments as the call left them

execVars == <<x_pc, x_code, x_global_vars, x_warnings_list, x_errors_list,
              x_error_prefix, x_result>>

\* ------------------------------------------------------------------------
\* State of two consecutive _check_student_code_against_requirements calls
\* ------------------------------------------------------------------------
VARIABLES
  v_pc,                  \* "idle", "first", "second", "done"
  v_student_code,        \* argument student_code
  v_required_functions,  \* argument required_functions
  v_required_vars,       \* argument required_vars
  v_assertions,          \* argument assertions
  v_global_vars,         \* argument global_vars as passed to the first call
  v_first,               \* the lists and the dict as the first call left them
  v_second               \* the lists and the dict as the second call left them

validateVars == <<v_pc, v_student_code, v_required_functions, v_required_vars,
                  v_assertions, v_global_vars, v_first, v_second>>

\* ------------------------------------------------------------------------
\* State of one _does_code_use call on a syntax tree
\* ------------------------------------------------------------------------
VARIABLES
  u_pc,             \* "idle", "call", "returned", "raised"
  u_code_snippet,   \* argument code_snippet: whether it compiles, and its tree
  u_name,           \* argument name
  u_found           \* the value returned

usesVars == <<u_pc, u_code_snippet, u_name, u_found>>

\* ------------------------------------------------------------------------
\* State of consecutive initialize calls
\* ------------------------------------------------------------------------
VARIABLES
  in_pc,            \* "idle", "ready", then how the last call ended
  in_calls,         \* initialize calls made
  in_nb_dir_path,   \* argument nb_dir_path of the last call
  in_project_name,  \* argument project_name of the last call
  in_exc,           \* exception of the last call, or "none"
  in_before,        \* NB_FILE_PATH and NB_DIR_PATH when the last call began
  dirs              \* directories that exist

initializeVars == <<in_pc, in_calls, in_nb_dir_path, in_project_name, in_exc,
                    in_before, dirs>>

\* The calls studied as functions of their arguments, other than execute_code.
pureVars == <<validateVars, usesVars, initializeVars>>

vars == <<checkVars, setupVars, timerVars, execVars, pureVars>>
nonCheckVars == <<setupVars, timerVars, execVars, pureVars>>
nonTimerVars == <<checkVars, setupVars, execVars, pureVars>>
nonExecVars == <<checkVars, setupVars, timerVars, pureVars>>
nonValidateVars == <<checkVars, setupVars, timerVars, execVars, usesVars, initializeVars>>
nonUsesVars == <<checkVars, setupVars, timerVars, execVars, validateVars, initializeVars>>
nonInitializeVars == <<checkVars, timerVars, execVars, validateVars, usesVars>>

\* ------------------------------------------------------------------------
\* Decisions taken by check
\* ------------------------------------------------------------------------
\* Mutation: the trailing window is one cell short.
ScanLimitShortWindow(n) == n - 1

\* notebook.cells[:-CHECK_CELL_OFFSET_STUDENT]: last index the loop visits.
ScanLimit(n) == n - CHECK_CELL_OFFSET_STUDENT

FoundQuestionBlock(k) == notebook[k].source.marker

FoundCurrentQuestionBlock(k) ==
  /\ FoundQuestionBlock(k)
  /\ notebook[k + CHECK_CELL_OFFSET_STUDENT].source.ref = q_id

\* cell.cell_type == "code" and "grader.check" not in cell.source
IsExecutablePriorCell(cell) ==
  cell.cell_type = "code" /\ cell.source.ref = "none"

\* Mutation: the gate forgets the caller's mode.
BlockedByPriorIssuesAnyMode(warnings, errors, autograder) ==
  warnings # <<>> \/ errors # <<>>

\* (warnings_in_previous_cells or errors_in_previous_cells)
\*   and not is_running_from_autograder
BlockedByPriorIssues(warnings, errors, autograder) ==
  (warnings # <<>> \/ errors # <<>>) /\ ~autograder

\* Mutation: errors of the question's code no longer stop an interactive call.
StopAfterQuestionErrorsNever(errors, autograder) == FALSE

\* current_question_errors and not is_running_from_autograder
StopAfterQuestionErrors(errors, autograder) ==
  errors # <<>> /\ ~autograder

\* Mutation: warnings no longer count as issues.
HasIssuesErrorsOnly(warnings, errors) == errors # <<>>

\* current_question_warnings or current_question_errors
HasIssues(warnings, errors) == warnings # <<>> \/ errors # <<>>

\* Mutation: the verdict starts out as passed.
InitialDidCheckPassTrue == TRUE

\* did_check_pass = False
InitialDidCheckPass == FALSE

\* Mutation: the verdict is returned in every mode.
ReturnValueAnyMode(autograder, passed) ==
  IF passed THEN "True" ELSE "False"

\* if is_running_from_autograder: return did_check_pass
ReturnValue(autograder, passed) ==
  IF autograder THEN (IF passed THEN "True" ELSE "False") ELSE "None"

\* Mutation: the loop goes on after the block.
PcAfterBlockNoBreak == "scan"

\* the break statements that end the loop once the block was handled
PcAfterBlock == "ret"

\* Mutation: the validator runs without the question's code having run.
PcAfterGateSkipQuestion == "validate"

\* position after the prior-issues gate let the check through
PcAfterGate == "exec_q"

\* ------------------------------------------------------------------------
\* Paths, module globals and files
\* ------------------------------------------------------------------------
Path(dir, name) == [dir |-> dir, name |-> name]
Dirname(path) == path.dir
NoPath == Path("None", "None")
NoDir == "None"
NbDir == "hw"
NbPath == Path(NbDir, "p4.ipynb")
MetadataPath(dir) == Path(dir, "metadata.pkl")
AllFiles == {NbPath, MetadataPath(NbDir)}

\* initialize() sets both module globals together; before it they are None.
Setups ==
  { [NB_FILE_PATH |-> f, NB_DIR_PATH |-> IF f = NoPath THEN NoDir ELSE NbDir,
     overwrite_student_nb_path |-> o, files |-> fs] :
      f \in {NoPath, NbPath}, o \in {NoPath, NbPath}, fs \in SUBSET AllFiles }

\* The setup of a notebook session as the course hands it out.
InitializedSetup ==
  [NB_FILE_PATH |-> NbPath, NB_DIR_PATH |-> NbDir,
   overwrite_student_nb_path |-> NoPath, files |-> AllFiles]

\* Notebooks the other setups are combined with: a question block under
\* one prior code cell.
SetupNotebooks == { <<CodeCell(<<Assign("x", 1)>>)>> \o b : b \in Blocks }

\* get_nb_path
GetNbPath ==
  IF NB_FILE_PATH = NoPath
  THEN [exc |-> "InitializationError", path |-> NoPath]
  ELSE [exc |-> "none", path |-> NB_FILE_PATH]

\* load_metadata_dict: "none" when the pickle is loaded, else the exception.
LoadMetadataDict(overwrite_dir_path) ==
  IF NB_DIR_PATH = NoDir /\ overwrite_dir_path = NoDir
  THEN "InitializationError"
  ELSE LET metadata_file_path ==
             IF overwrite_dir_path # NoDir THEN MetadataPath(overwrite_dir_path)
             ELSE MetadataPath(NB_DIR_PATH)
       IN IF metadata_file_path \notin files THEN "FileNotFoundError" ELSE "none"

\* Mutation: the presence assertion is dropped.
QidInMetadataAlways(q) == TRUE

\* Lines 97-99: q_id in assignment_metadata
QidInMetadata(q) == q \in DOMAIN assignment_metadata

\* Lines 86-99 of check: "none" when the notebook and the metadata are
\* loaded and hold the question, else the exception that leaves check.
LoadInputs ==
  LET p == IF overwrite_student_nb_path # NoPath
           THEN [exc |-> "none", path |-> overwrite_student_nb_path]
           ELSE GetNbPath
  IN IF p.exc # "none" THEN p.exc
     ELSE IF p.path \notin files THEN "FileNotFoundError"
     ELSE LET m == LoadMetadataDict(Dirname(p.path)) IN
          IF m # "none" THEN m
          ELSE IF ~QidInMetadata(q_id) THEN "AssertionError"
          ELSE "none"

\* Exceptions by which check reports a problem of its configuration.
ConfigurationExceptions == {"InitializationError", "FileNotFoundError", "AssertionError"}

\* Mutation: the environment of the previous call is kept.
FreshGlobalVarsStale == global_vars

\* Line 102: global_vars = {}
FreshGlobalVars == EmptyEnv

\* ------------------------------------------------------------------------
\* check
\* ------------------------------------------------------------------------
SetupIs(setup) ==
  /\ NB_FILE_PATH = setup.NB_FILE_PATH
  /\ NB_DIR_PATH = setup.NB_DIR_PATH
  /\ overwrite_student_nb_path = setup.overwrite_student_nb_path
  /\ files = setup.files

CheckInit ==
  /\ \E setup \in Setups :
       /\ SetupIs(setup)
       /\ notebook \in IF setup = InitializedSetup THEN Notebooks ELSE SetupNotebooks
  /\ calls = 1
  /\ prev_global_vars = EmptyEnv
  /\ q_id \in RequestedQids
  /\ is_running_from_autograder \in BOOLEAN
  /\ pc = "start"
  /\ i = 1
  /\ global_vars = EmptyEnv
  /\ errors_in_previous_cells = <<>>
  /\ warnings_in_previous_cells = <<>>
  /\ current_question_errors = <<>>
  /\ current_question_warnings = <<>>
  /\ did_check_pass = FALSE
  /\ retval = "pending"
  /\ exc = "none"
  /\ printed = <<>>
  /\ executed = <<>>
  /\ found_at = 0
  /\ state = "SCANNING_PRIOR_CELLS"

\* An exception leaves check (outcome "raised") or check never gets
\* control back (outcome "hung").
Leave(outcome, e) ==
  /\ pc' = outcome
  /\ exc' = e

\* Lines 84-105: banner, notebook and metadata loading, metadata presence
\* assertion, fresh locals.
Start ==
  /\ pc = "start"
  /\ printed' = Append(printed, "CHECK_START_FORMAT")
  /\ IF LoadInputs # "none"
     THEN /\ Leave("raised", LoadInputs)
          /\ UNCHANGED <<global_vars, errors_in_previous_cells,
                         warnings_in_previous_cells, did_check_pass, i>>
     ELSE /\ pc' = "scan"
          /\ i' = 1
          /\ global_vars' = FreshGlobalVars
          /\ errors_in_previous_cells' = <<>>
          /\ warnings_in_previous_cells' = <<>>
          /\ did_check_pass' = InitialDidCheckPass
          /\ exc' = exc
  /\ UNCHANGED <<notebook, q_id, is_running_from_autograder,
                 current_question_errors, current_question_warnings,
                 retval, executed, found_at, state>>
  /\ UNCHANGED nonCheckVars

\* Lines 108-121 and 186-198: one iteration of the loop on a cell that is
\* either the marker of the requested block, an executable prior cell, or
\* a cell that is skipped.
ScanCell ==
  /\ pc = "scan"
  /\ i <= ScanLimit(Len(notebook))
  /\ IF FoundCurrentQuestionBlock(i)
     THEN /\ pc' = "found"
          /\ found_at' = i
          /\ state' = "FOUND_TARGET_BLOCK"
          /\ UNCHANGED <<i, global_vars, errors_in_previous_cells,
                         warnings_in_previous_cells, exc, executed>>
     ELSE IF IsExecutablePriorCell(notebook[i])
     THEN LET r == ExecuteCode(notebook[i].source, global_vars,
                               warnings_in_previous_cells,
                               errors_in_previous_cells,
                               ABOVE_QUESTION_ERROR_PREFIX)
          IN /\ executed' = Append(executed, <<"cell", i>>)
             /\ global_vars' = r.global_vars
             /\ warnings_in_previous_cells' = r.warnings_list
             /\ errors_in_previous_cells' = r.errors_list
             /\ IF r.outcome = "returned"
                THEN pc' = "scan" /\ i' = i + 1 /\ exc' = exc
                ELSE Leave(r.outcome, r.exc) /\ i' = i
             /\ UNCHANGED <<found_at, state>>
     ELSE /\ i' = i + 1
          /\ UNCHANGED <<pc, global_vars, errors_in_previous_cells,
                         warnings_in_previous_cells, exc, executed,
                         found_at, state>>
  /\ UNCHANGED <<notebook, q_id, is_running_from_autograder,
                 current_question_errors, current_question_warnings,
                 did_check_pass, retval, printed>>
  /\ UNCHANGED nonCheckVars

\* Lines 125-137: the prior-issues gate, then fresh lists for the question.
PriorIssuesGate ==
  /\ pc = "found"
  /\ IF BlockedByPriorIssues(warnings_in_previous_cells,
                             errors_in_previous_cells,
                             is_running_from_autograder)
     THEN /\ printed' = printed \o <<"FEEDBACK", "ISSUES_ABOVE_MSG">>
          /\ state' = "BLOCKED_BY_PRIOR_ISSUES"
          /\ pc' = PcAfterBlock
          /\ i' = i + 1
          /\ UNCHANGED <<current_question_errors, current_question_warnings>>
     ELSE /\ current_question_errors' = <<>>
          /\ current_question_warnings' = <<>>
          /\ pc' = PcAfterGate
          /\ UNCHANGED <<printed, state, i>>
  /\ UNCHANGED <<notebook, q_id, is_running_from_autograder, global_vars,
                 errors_in_previous_cells, warnings_in_previous_cells,
                 did_check_pass, retval, exc, executed, found_at>>
  /\ UNCHANGED nonCheckVars

\* Lines 142-154: the question's own code.
ExecQuestion ==
  /\ pc = "exec_q"
  /\ LET student_code == notebook[found_at + CODE_CELL_OFFSET_STUDENT].source
         r == ExecuteCode(student_code, global_vars, current_question_warnings,
                          current_question_errors, CUR_QUESTION_ERROR_PREFIX)
     IN /\ executed' = Append(executed, <<"question", found_at + CODE_CELL_OFFSET_STUDENT>>)
        /\ global_vars' = r.global_vars
        /\ current_question_warnings' = r.warnings_list
        /\ current_question_errors' = r.errors_list
        /\ IF r.outcome # "returned"
           THEN /\ Leave(r.outcome, r.exc)
                /\ UNCHANGED <<printed, state, i>>
           ELSE IF StopAfterQuestionErrors(r.errors_list, is_running_from_autograder)
           THEN /\ printed' = Append(printed, "FEEDBACK")
                /\ state' = "EXECUTED_WITH_ISSUES"
                /\ pc' = PcAfterBlock
                /\ i' = i + 1
                /\ exc' = exc
           ELSE /\ pc' = "validate"
                /\ UNCHANGED <<printed, state, i, exc>>
  /\ UNCHANGED <<notebook, q_id, is_running_from_autograder,
                 errors_in_previous_cells, warnings_in_previous_cells,
                 did_check_pass, retval, found_at>>
  /\ UNCHANGED nonCheckVars

\* Lines 156-184: the requirement validator and the verdict.
Validate ==
  /\ pc = "validate"
  /\ LET student_code == notebook[found_at + CODE_CELL_OFFSET_STUDENT].source
         md == assignment_metadata[q_id]
         r == CheckStudentCodeAgainstRequirements(student_code,
                md.required_funcs, md.required_vars, md.assertions,
                current_question_warnings, current_question_errors, global_vars)
     IN /\ executed' = IF r.exc = "SyntaxError" THEN executed
                       ELSE Append(executed, <<"assertion", 0>>)
        /\ global_vars' = r.global_vars
        /\ current_question_warnings' = r.warnings_list
        /\ current_question_errors' = r.errors_list
        /\ IF r.outcome # "returned"
           THEN /\ Leave(r.outcome, r.exc)
                /\ UNCHANGED <<printed, state, i, did_check_pass>>
           ELSE /\ IF HasIssues(r.warnings_list, r.errors_list)
                   THEN /\ printed' = IF is_running_from_autograder THEN printed
                                      ELSE Append(printed, "FEEDBACK")
                        /\ state' = "EXECUTED_WITH_ISSUES"
                        /\ UNCHANGED did_check_pass
                   ELSE /\ did_check_pass' = TRUE
                        /\ printed' = Append(printed, "SUCCESS_MSG")
                        /\ state' = "EXECUTED_OK"
                /\ pc' = PcAfterBlock
                /\ i' = i + 1
                /\ exc' = exc
  /\ UNCHANGED <<notebook, q_id, is_running_from_autograder,
                 errors_in_previous_cells, warnings_in_previous_cells,
                 retval, found_at>>
  /\ UNCHANGED nonCheckVars

\* Lines 200-202: the loop is over (exhausted or left by break).
Return ==
  /\ \/ pc = "ret"
     \/ pc = "scan" /\ i > ScanLimit(Len(notebook))
  /\ retval' = ReturnValue(is_running_from_autograder, did_check_pass)
  /\ pc' = "done"
  /\ UNCHANGED <<notebook, q_id, is_running_from_autograder, i, global_vars,
                 errors_in_previous_cells, warnings_in_previous_cells,
                 current_question_errors, current_question_warnings,
                 did_check_pass, exc, printed, executed, found_at, state>>
  /\ UNCHANGED nonCheckVars

\* No execute_code call is in progress outside a check call's own steps.
TimerIdle ==
  /\ t_pc = "idle"
  /\ t_calls = 0
  /\ t_code = Code(<<>>)
  /\ t_remaining = 0
  /\ t_timers = <<>>
  /\ t_errors = <<>>
  /\ t_mark = 0
  /\ t_spin = 0
  /\ t_thread_errors = {}

\* No execute_code call is being studied on its own.
NoResult ==
  [outcome |-> "none", exc |-> "none", global_vars |-> EmptyEnv,
   warnings_list |-> <<>>, errors_list |-> <<>>]

ExecIdle ==
  /\ x_pc = "idle"
  /\ x_code = Code(<<>>)
  /\ x_global_vars = EmptyEnv
  /\ x_warnings_list = <<>>
  /\ x_errors_list = <<>>
  /\ x_error_prefix = CUR_QUESTION_ERROR_PREFIX
  /\ x_result = NoResult

ValidateIdle ==
  /\ v_pc = "idle"
  /\ v_student_code = Code(<<>>)
  /\ v_required_functions = <<>>
  /\ v_required_vars = <<>>
  /\ v_assertions = Code(<<>>)
  /\ v_global_vars = EmptyEnv
  /\ v_first = NoResult
  /\ v_second = NoResult

UsesIdle ==
  /\ u_pc = "idle"
  /\ u_code_snippet = [syntax_ok |-> TRUE, tree |-> Node("Module", "", <<>>)]
  /\ u_name = ""
  /\ u_found = FALSE

InitializeIdle ==
  /\ in_pc = "idle"
  /\ in_calls = 0
  /\ in_nb_dir_path = NbDir
  /\ in_project_name = "p4"
  /\ in_exc = "none"
  /\ in_before = <<NoPath, NoDir>>
  /\ dirs = {NbDir}

\* None of the other calls is being studied on its own.
PureIdle == ValidateIdle /\ UsesIdle /\ InitializeIdle

Init == CheckInit /\ TimerIdle /\ ExecIdle /\ PureIdle

Next == Start \/ ScanCell \/ PriorIssuesGate \/ ExecQuestion \/ Validate \/ Return

Spec == Init /\ [][Next]_vars

\* ------------------------------------------------------------------------
\* execute_code and its deadline timer, step by step
\* ------------------------------------------------------------------------
MaxCalls == 2

\* Snippets given to execute_code: finishing at once, before, at and after
\* the deadline, or never; completing normally, raising an Exception
\* (caught by execute_code) or raising SystemExit (which leaves it).
TimerSnippets ==
  { Source(FALSE, "none", TRUE, b, d) :
      b \in { <<>>, <<Raise>>, <<Exit>> },
      d \in (0..(CODE_MAX_EXECUTION_TIME + 1)) \cup {Forever} }

\* No check call is made.
CallIdle ==
  /\ calls = 0
  /\ prev_global_vars = EmptyEnv
  /\ notebook = <<>>
  /\ q_id = "q1"
  /\ is_running_from_autograder = FALSE
  /\ pc = "idle"
  /\ i = 1
  /\ global_vars = EmptyEnv
  /\ errors_in_previous_cells = <<>>
  /\ warnings_in_previous_cells = <<>>
  /\ current_question_errors = <<>>
  /\ current_question_warnings = <<>>
  /\ did_check_pass = FALSE
  /\ retval = "pending"
  /\ exc = "none"
  /\ printed = <<>>
  /\ executed = <<>>
  /\ found_at = 0
  /\ state = "SCANNING_PRIOR_CELLS"

\* The check call's variables while another function is studied on its
\* own, in a session set up as the course hands it out.
CheckIdle ==
  /\ SetupIs(InitializedSetup)
  /\ CallIdle

TimerInit == CheckIdle /\ TimerIdle /\ ExecIdle /\ PureIdle

\* timeout_handler, run by the timer's own thread: the RuntimeError is
\* raised in that thread and ends it; the thread inside exec is not touched.
TimeoutHandler(k) ==
  /\ t_thread_errors' = t_thread_errors \cup {k}
  /\ UNCHANGED <<t_pc, t_remaining, t_errors, t_spin>>

\* Mutation: the finally clause does not cancel the timer.
TimerCancelSkipped(timer) == timer

\* timer.cancel(): stops a timer that has not fired yet.
TimerCancel(timer) ==
  IF timer.state = "armed" THEN [timer EXCEPT !.state = "cancelled"] ELSE timer

\* Lines 52-59: snapshot, Timer(...).start(), exec begins.
ExecBegin ==
  /\ t_pc \in {"idle", "returned", "raised"}
  /\ t_calls < MaxCalls
  /\ \E code \in TimerSnippets :
       /\ t_code' = code
       /\ t_remaining' = code.time
  /\ t_calls' = t_calls + 1
  /\ t_timers' = Append(t_timers, [state |-> "armed", age |-> 0])
  /\ t_mark' = Len(t_errors)
  /\ t_pc' = "exec"
  /\ UNCHANGED <<t_errors, t_spin, t_thread_errors>>
  /\ UNCHANGED nonTimerVars

\* One second passes: armed timers age, the running snippet progresses (a
\* snippet that never ends goes round its loop once more).  A timer that
\* reached its deadline fires before more time passes.
Tick ==
  /\ t_pc = "exec"
  /\ t_remaining # 0
  /\ \A k \in 1..Len(t_timers) :
       t_timers[k].state = "armed" => t_timers[k].age < CODE_MAX_EXECUTION_TIME
  /\ t_timers' = [k \in 1..Len(t_timers) |->
                    IF t_timers[k].state = "armed"
                    THEN [t_timers[k] EXCEPT !.age = @ + 1]
                    ELSE t_timers[k]]
  /\ t_remaining' = IF t_remaining = Forever THEN Forever ELSE t_remaining - 1
  /\ t_spin' = IF t_remaining = Forever THEN 1 - t_spin ELSE t_spin
  /\ UNCHANGED <<t_pc, t_calls, t_code, t_errors, t_mark, t_thread_errors>>
  /\ UNCHANGED nonTimerVars

\* Lines 18-26 and 55: an armed timer reaches CODE_MAX_EXECUTION_TIME.
TimerFire ==
  /\ \E k \in 1..Len(t_timers) :
       /\ t_timers[k].state = "armed"
       /\ t_timers[k].age >= CODE_MAX_EXECUTION_TIME
       /\ t_timers' = [t_timers EXCEPT ![k].state = "fired"]
       /\ TimeoutHandler(k)
  /\ UNCHANGED <<t_calls, t_code, t_mark>>
  /\ UNCHANGED nonTimerVars

\* Lines 59-79: exec completes or raises, the except/finally clauses run,
\* then the comparison of the snapshots; execute_code returns.
ExecEnd ==
  /\ t_pc = "exec"
  /\ t_remaining = 0
  /\ LET r == ExecuteCode(t_code, EmptyEnv, <<>>, t_errors, CUR_QUESTION_ERROR_PREFIX)
     IN /\ t_errors' = r.errors_list
        /\ t_pc' = r.outcome
  /\ t_timers' = [t_timers EXCEPT ![t_calls] = TimerCancel(@)]
  /\ UNCHANGED <<t_calls, t_code, t_remaining, t_mark, t_spin, t_thread_errors>>
  /\ UNCHANGED nonTimerVars

TimerNext == ExecBegin \/ Tick \/ TimerFire \/ ExecEnd

TimerSpec == TimerInit /\ [][TimerNext]_vars

\* The interpreter schedules both threads and time passes.
FairTimerSpec ==
  TimerSpec /\ WF_vars(Tick) /\ WF_vars(TimerFire) /\ WF_vars(ExecEnd)

\* ------------------------------------------------------------------------
\* execute_code as a function of its arguments
\* ------------------------------------------------------------------------
MaxListLen == 1

\* Environments passed in: x unbound, bound to an integer or to a list,
\* len unbound or shadowed already, with or without the builtins entry
\* that an earlier exec left behind.
ExecEnvs ==
  { [n \in Names \cup {ObjCell} |->
       CASE n = "x" -> x
         [] n = "len" -> l
         [] n = "__builtins__" -> b
         [] OTHER -> IF x = ListRef THEN c ELSE Absent] :
      x \in {Absent, 1, 5, ListRef}, l \in {Absent, 42},
      b \in {Absent, BuiltinsModule}, c \in 0..MaxListLen }

ExecSnippets ==
  { Code(<<>>),
    Code(<<Assign("x", 1)>>),
    Code(<<Assign("x", 5)>>),
    Code(<<Assign("len", 42)>>),
    Code(<<Assign("len", 7)>>),
    Code(<<Del("x")>>),
    Code(<<Del("x"), Assign("len", 7)>>),
    Code(<<ListAppend("x")>>),
    Code(<<Raise>>),
    Code(<<Assign("x", 5), Raise>>),
    Code(<<Assign("len", 42), Raise>>),
    Code(<<Exit>>),
    Code(<<Assign("x", 5), Exit>>),
    Source(FALSE, "none", FALSE, <<>>, 0),
    Source(FALSE, "none", TRUE, <<>>, Forever) }

\* The arguments of the call.
ExecArguments ==
  /\ x_pc = "call"
  /\ x_code \in ExecSnippets
  /\ x_global_vars \in ExecEnvs
  /\ x_warnings_list \in { <<>>, <<(<<"Global variable modified", "x">>)>> }
  /\ x_errors_list \in { <<>>, <<(<<ABOVE_QUESTION_ERROR_PREFIX, "boom">>)>> }
  /\ x_error_prefix \in {CUR_QUESTION_ERROR_PREFIX, ASSERTION_FAILED_PREFIX}
  /\ x_result = NoResult

\* Lines 52-79: the whole call.
ExecCall ==
  /\ x_pc = "call"
  /\ LET r == ExecuteCode(x_code, x_global_vars, x_warnings_list, x_errors_list,
                          x_error_prefix)
     IN /\ x_result' = r
        /\ x_pc' = r.outcome
  /\ UNCHANGED <<x_code, x_global_vars, x_warnings_list, x_errors_list, x_error_prefix>>
  /\ UNCHANGED nonExecVars

ExecNext == ExecCall

ExecInit == CheckIdle /\ TimerIdle /\ ExecArguments /\ PureIdle

ExecSpec == ExecInit /\ [][ExecNext]_vars

\* ------------------------------------------------------------------------
\* Consecutive check calls in one kernel session
\* ------------------------------------------------------------------------
MaxCheckCalls == 2

\* Notebooks of the session: at most one cell above and one below the block.
SessionNotebooks ==
  { p \o b \o t : p \in SeqsUpTo(PriorCells, 1), b \in Blocks,
                  t \in SeqsUpTo(TailCells, 1) }

SessionInit ==
  /\ CheckInit
  /\ SetupIs(InitializedSetup)
  /\ notebook \in SessionNotebooks
  /\ TimerIdle
  /\ ExecIdle
  /\ PureIdle

\* The caller runs another check cell after the previous call returned or
\* raised.  The new call's frame has no locals yet: the variables keep
\* what the previous call left until the new call assigns them.
CallAgain ==
  /\ pc \in {"done", "raised"}
  /\ calls < MaxCheckCalls
  /\ calls' = calls + 1
  /\ prev_global_vars' = global_vars
  /\ \E q \in RequestedQids, autograder \in BOOLEAN :
       /\ q_id' = q
       /\ is_running_from_autograder' = autograder
  /\ pc' = "start"
  /\ retval' = "pending"
  /\ exc' = "none"
  /\ printed' = <<>>
  /\ executed' = <<>>
  /\ found_at' = 0
  /\ state' = "SCANNING_PRIOR_CELLS"
  /\ UNCHANGED <<notebook, i, global_vars, errors_in_previous_cells,
                 warnings_in_previous_cells, current_question_errors,
                 current_question_warnings, did_check_pass>>
  /\ UNCHANGED <<NB_FILE_PATH, NB_DIR_PATH, overwrite_student_nb_path, files>>
  /\ UNCHANGED <<timerVars, execVars, pureVars>>

SessionNext ==
  Start \/ ScanCell \/ PriorIssuesGate \/ ExecQuestion \/ Validate \/ Return \/ CallAgain

SessionSpec == SessionInit /\ [][SessionNext]_vars

\* ------------------------------------------------------------------------
\* _check_student_code_against_requirements, called twice
\* ------------------------------------------------------------------------
ValidateStudentCodes ==
  { Code(<<Assign("x", 5)>>),
    Code(<<AssignCall("x", 5, "abs")>>),
    Source(FALSE, "none", FALSE, <<>>, 0) }

ValidateRequiredFunctions == { <<>>, <<"abs">>, <<"max", "abs">> }

ValidateRequiredVars == { <<>>, <<"x">>, <<"len", "x">> }

\* Assertion snippets: passing or failing tests, a test that raises or
\* does not compile, and tests that are not pure (they rebind or grow x).
ValidateAssertions ==
  { Code(<<>>),
    Code(<<AssertEq("x", 5)>>),
    Code(<<AssertEq("x", 5), AssertEq("len", 42)>>),
    Code(<<Raise>>),
    Source(FALSE, "none", FALSE, <<>>, 0),
    Code(<<Assign("x", 7)>>),
    Code(<<ListAppend("x")>>) }

ValidateArguments ==
  /\ v_pc = "first"
  /\ v_student_code \in ValidateStudentCodes
  /\ v_required_functions \in ValidateRequiredFunctions
  /\ v_required_vars \in ValidateRequiredVars
  /\ v_assertions \in ValidateAssertions
  /\ v_global_vars \in ExecEnvs
  /\ v_first = NoResult
  /\ v_second = NoResult

\* Lines 205-240, with fresh empty lists.
ValidateFirst ==
  /\ v_pc = "first"
  /\ v_first' = CheckStudentCodeAgainstRequirements(v_student_code,
                  v_required_functions, v_required_vars, v_assertions,
                  <<>>, <<>>, v_global_vars)
  /\ v_pc' = "second"
  /\ UNCHANGED <<v_student_code, v_required_functions, v_required_vars,
                 v_assertions, v_global_vars, v_second>>
  /\ UNCHANGED nonValidateVars

\* The second call, again with fresh empty lists, is given either the dict
\* the first call worked on or a dict equal to the one the first call got.
ValidateSecond ==
  /\ v_pc = "second"
  /\ \E global_vars_again \in {v_global_vars, v_first.global_vars} :
       v_second' = CheckStudentCodeAgainstRequirements(v_student_code,
                     v_required_functions, v_required_vars, v_assertions,
                     <<>>, <<>>, global_vars_again)
  /\ v_pc' = "done"
  /\ UNCHANGED <<v_student_code, v_required_functions, v_required_vars,
                 v_assertions, v_global_vars, v_first>>
  /\ UNCHANGED nonValidateVars

ValidateNext == ValidateFirst \/ ValidateSecond

ValidateInit ==
  CheckIdle /\ TimerIdle /\ ExecIdle /\ UsesIdle /\ InitializeIdle /\ ValidateArguments

ValidateSpec == ValidateInit /\ [][ValidateNext]_vars

\* ------------------------------------------------------------------------
\* _does_code_use on syntax trees
\* ------------------------------------------------------------------------
MaxDepth == 2

\* Expressions nested up to d levels.
RECURSIVE Exprs(_)
Exprs(d) ==
  IF d = 0 THEN { Name("f"), Name("m"), Literal }
  ELSE LET sub == Exprs(d - 1) IN
    sub \cup { Attribute(e, a) : e \in sub, a \in {"f", "g"} }
        \cup { Call(e, <<>>) : e \in sub }
        \cup { Call(Name("g"), <<e>>) : e \in sub }
        \cup { BinOp("Add", e, Literal) : e \in sub }
        \cup { BoolOp("And", Literal, e) : e \in sub }
        \cup { UnaryOp("Not", e) : e \in sub }
        \cup { Compare("Lt", e, Literal) : e \in sub }

\* Snippets: an expression statement, an assignment, an augmented
\* assignment, the empty snippet, and a snippet that does not compile.
UsesSnippets ==
  { [syntax_ok |-> TRUE, tree |-> t] :
      t \in { Module(<<ExprStmt(e)>>) : e \in Exprs(MaxDepth) }
            \cup { Module(<<ExprStmt(Literal), AssignStmt("x", e)>>) : e \in Exprs(MaxDepth) }
            \cup { Module(<<AugAssign("Add", "x", e)>>) : e \in Exprs(MaxDepth) }
            \cup { Module(<<>>) } }
  \cup { [syntax_ok |-> FALSE, tree |-> Module(<<>>)] }

UsesNames == { "f", "g", "m", "m.f", "m.g", "f.f", "m.f.g", ".f", "", "Add", "And", "Not", "Lt" }

UsesArguments ==
  /\ u_pc = "call"
  /\ u_code_snippet \in UsesSnippets
  /\ u_name \in UsesNames
  /\ u_found = FALSE

\* Lines 266-316: the whole call.
DoesCodeUseCall ==
  /\ u_pc = "call"
  /\ LET r == DoesCodeUseTree(u_code_snippet, u_name)
     IN /\ u_found' = r.found
        /\ u_pc' = IF r.raised THEN "raised" ELSE "returned"
  /\ UNCHANGED <<u_code_snippet, u_name>>
  /\ UNCHANGED nonUsesVars

UsesNext == DoesCodeUseCall

UsesInit ==
  CheckIdle /\ TimerIdle /\ ExecIdle /\ ValidateIdle /\ InitializeIdle /\ UsesArguments

UsesSpec == UsesInit /\ [][UsesNext]_vars

\* ------------------------------------------------------------------------
\* initialize, called by the first cell of the notebook
\* ------------------------------------------------------------------------
MaxInitializeCalls == 2

\* Directories and project names a caller passes, and what may be on disk.
InitializeDirs == {NbDir, "tmp", "gone"}
InitializeProjects == {"p4", "p5"}
NotebookPath(nb_dir_path, project_name) == Path(nb_dir_path, project_name \o ".ipynb")
PossibleFiles == {NbPath, MetadataPath(NbDir), NotebookPath("tmp", "p4")}

\* The process has just imported the package: both globals are None.
InitializeArguments ==
  /\ NB_FILE_PATH = NoPath
  /\ NB_DIR_PATH = NoDir
  /\ overwrite_student_nb_path = NoPath
  /\ dirs \in SUBSET {NbDir, "tmp"}
  /\ files \in { fs \in SUBSET PossibleFiles : \A f \in fs : Dirname(f) \in dirs }
  /\ in_pc = "ready"
  /\ in_calls = 0
  /\ in_nb_dir_path = NbDir
  /\ in_project_name = "p4"
  /\ in_exc = "none"
  /\ in_before = <<NoPath, NoDir>>

\* Lines 54-79: the whole call.
Initialize ==
  /\ in_pc \in {"ready", "returned", "raised"}
  /\ in_calls < MaxInitializeCalls
  /\ in_calls' = in_calls + 1
  /\ in_before' = <<NB_FILE_PATH, NB_DIR_PATH>>
  /\ \E nb_dir_path \in InitializeDirs, project_name \in InitializeProjects :
       /\ in_nb_dir_path' = nb_dir_path
       /\ in_project_name' = project_name
       /\ IF nb_dir_path \notin dirs
          THEN /\ in_pc' = "raised"
               /\ in_exc' = "PathNotFoundError"
               /\ UNCHANGED <<NB_FILE_PATH, NB_DIR_PATH>>
          ELSE /\ NB_DIR_PATH' = nb_dir_path
               /\ NB_FILE_PATH' = NotebookPath(nb_dir_path, project_name)
               /\ IF NotebookPath(nb_dir_path, project_name) \notin files
                  THEN in_pc' = "raised" /\ in_exc' = "FileNotFoundError"
                  ELSE in_pc' = "returned" /\ in_exc' = "none"
  /\ UNCHANGED <<overwrite_student_nb_path, files, calls, prev_global_vars, dirs>>
  /\ UNCHANGED nonInitializeVars

InitializeNext == Initialize

InitializeInit ==
  CallIdle /\ TimerIdle /\ ExecIdle /\ ValidateIdle /\ UsesIdle /\ InitializeArguments

InitializeSpec == InitializeInit /\ [][InitializeNext]_vars

\* ========================================================================
\* Properties
\* ========================================================================
Has(seq, e) == \E k \in 1..Len(seq) : seq[k] = e
QuestionEntry == <<"question", found_at + CODE_CELL_OFFSET_STUDENT>>
AssertionEntry == <<"assertion", 0>>
QuestionExecuted == found_at # 0 /\ Has(executed, QuestionEntry)
ValidatorRan == Has(executed, AssertionEntry)
PriorIssues == warnings_in_previous_cells # <<>> \/ errors_in_previous_cells # <<>>
QuestionClean == current_question_warnings = <<>> /\ current_question_errors = <<>>
Finished == pc = "done"

\* C1: in automated mode check returns a boolean, and it returns True
\* exactly when the terminal state is EXECUTED_OK, i.e. the target block was
\* found, the question's code and the validator ran, and both of the
\* question's lists are empty; in every other outcome it returns False.
C1_AutomatedReturnIffExecutedOk ==
  (Finished /\ is_running_from_autograder) =>
    /\ retval \in {"True", "False"}
    /\ (retval = "True") <=> (state = "EXECUTED_OK")
    /\ (state = "EXECUTED_OK") <=>
         (QuestionExecuted /\ ValidatorRan /\ QuestionClean)
    /\ (found_at = 0 \/ ~QuestionClean) => retval = "False"

C1_witness ==
  /\ Finished /\ is_running_from_autograder
  /\ retval = "True" /\ state = "EXECUTED_OK"
  /\ PriorIssues

\* C2: no student-code fault aborts check: check raises nothing to its
\* caller because of a cell's code (the only exception it may raise is the
\* metadata assertion), and once the question's code has been executed, a
\* snippet that does not compile, raises, or runs past the deadline has
\* left an entry with the question's prefix in the question's error list.
StudentFault(code) ==
  \/ ~code.syntax_ok
  \/ code.time > CODE_MAX_EXECUTION_TIME
  \/ \E k \in 1..Len(code.body) : code.body[k].op \in {"raise", "exit"}

C2_StudentFaultsNeverAbort ==
  /\ pc = "raised" => exc \in ConfigurationExceptions
  /\ (QuestionExecuted /\ pc \in {"validate", "ret", "done"}
        /\ StudentFault(notebook[found_at + CODE_CELL_OFFSET_STUDENT].source)) =>
       \E k \in 1..Len(current_question_errors) :
         current_question_errors[k][1] = CUR_QUESTION_ERROR_PREFIX

\* C3: success (EXECUTED_OK, success message, did_check_pass) happens only
\* when the question's code and the validator ran and left no warning and
\* no error; any warning or error of the question block prevents it, in
\* either mode.
C3_SuccessOnlyWithoutIssues ==
  /\ (did_check_pass <=> state = "EXECUTED_OK")
  /\ (did_check_pass <=> Has(printed, "SUCCESS_MSG"))
  /\ did_check_pass => (QuestionExecuted /\ ValidatorRan /\ QuestionClean)
  /\ (pc \in {"ret", "done"} /\ ~QuestionClean) =>
        (~did_check_pass /\ ~Has(printed, "SUCCESS_MSG"))

C3_witness ==
  /\ Finished /\ ~is_running_from_autograder
  /\ state = "EXECUTED_OK" /\ Has(printed, "SUCCESS_MSG")

C3_witness_warning ==
  /\ Finished /\ QuestionExecuted /\ ValidatorRan
  /\ current_question_warnings # <<>> /\ current_question_errors = <<>>
  /\ state = "EXECUTED_WITH_ISSUES"

\* C4: once the gate at the target block has been passed or has stopped
\* the check, the question's code is unexecuted (and the validator has not
\* run) exactly when the caller is interactive and the prior cells left a
\* warning or an error; in automated mode prior issues never block, leave
\* no entry in the question's lists, and the result is decided by the
\* question's lists alone.
C4_BlockedIffInteractiveWithPriorIssues ==
  /\ (found_at # 0 /\ pc \notin {"found", "exec_q"}) =>
       /\ (~QuestionExecuted) <=> (~is_running_from_autograder /\ PriorIssues)
       /\ (~QuestionExecuted) <=> (state = "BLOCKED_BY_PRIOR_ISSUES")
       /\ (~QuestionExecuted) => ~ValidatorRan
  /\ is_running_from_autograder =>
       /\ state # "BLOCKED_BY_PRIOR_ISSUES"
       /\ ~Has(printed, "ISSUES_ABOVE_MSG")
       /\ \A k \in 1..Len(current_question_errors) :
            current_question_errors[k][1] # ABOVE_QUESTION_ERROR_PREFIX
       /\ (pc = "exec_q") => QuestionClean
       /\ (Finished /\ found_at # 0) => (retval = "True" <=> QuestionClean)

C4_witness ==
  /\ Finished /\ state = "BLOCKED_BY_PRIOR_ISSUES"
  /\ warnings_in_previous_cells # <<>>
  /\ ~QuestionExecuted /\ ~ValidatorRan

C4_witness_automated ==
  /\ Finished /\ is_running_from_autograder /\ PriorIssues
  /\ QuestionExecuted /\ ~QuestionClean

\* C5: once the target block is found, every cell that has been executed
\* lies before the block's marker cell or is the block's own code cell
\* (marker index + 1), whatever terminal state is reached.
C5_NoCellPastTargetBlock ==
  found_at # 0 =>
    \A k \in 1..Len(executed) :
      executed[k][1] \in {"cell", "question"} =>
        \/ executed[k][2] < found_at
        \/ executed[k] = QuestionEntry

C5_witness ==
  /\ Finished /\ found_at # 0
  /\ found_at + CHECK_CELL_OFFSET_STUDENT + 1 <= ScanLimit(Len(notebook))
  /\ IsExecutablePriorCell(notebook[found_at + CHECK_CELL_OFFSET_STUDENT + 1])
  /\ state \in {"BLOCKED_BY_PRIOR_ISSUES", "EXECUTED_WITH_ISSUES", "EXECUTED_OK"}

\* C6: when the scan ends without a match, check raises nothing (an
\* exception can leave check only from inside the scan or from the metadata
\* assertion before it), has printed no success message, returns False in automated mode, and has
\* executed, once each and in notebook order, exactly the code cells
\* outside the trailing two-cell window that contain no check invocation.
RECURSIVE CodeCellsOutsideWindow(_, _)
CodeCellsOutsideWindow(nb, k) ==
  IF k > Len(nb) - 2 THEN <<>>
  ELSE IF nb[k].cell_type = "code" /\ nb[k].source.ref = "none"
  THEN <<(<<"cell", k>>)>> \o CodeCellsOutsideWindow(nb, k + 1)
  ELSE CodeCellsOutsideWindow(nb, k + 1)

C6_NoMatchRunsAllPriorCells ==
  /\ (Finished /\ found_at = 0) =>
       /\ exc = "none"
       /\ ~Has(printed, "SUCCESS_MSG")
       /\ is_running_from_autograder => retval = "False"
       /\ executed = CodeCellsOutsideWindow(notebook, 1)
  /\ (pc = "raised" /\ found_at = 0 /\ exc \notin ConfigurationExceptions) =>
       i <= ScanLimit(Len(notebook))
  /\ (pc = "scan" /\ i > ScanLimit(Len(notebook))) =>
       (exc = "none" /\ ~did_check_pass)

C6_witness ==
  /\ Finished /\ found_at = 0
  /\ \E k \in 1..Len(notebook) : notebook[k].source.marker
  /\ Len(executed) >= 2
  /\ Len(executed) < Len(notebook) - 2

\* C9: the validator's checks come strictly after the question's own code
\* ran: the assertion is executed immediately after the question's code
\* and never without it, and the missing-variable and assertion verdicts
\* are those of the bindings the question's code left in the environment.
C9_ValidatorAfterQuestionCode ==
  /\ \A k \in 1..Len(executed) :
       executed[k] = AssertionEntry => (k > 1 /\ executed[k - 1] = QuestionEntry)
  /\ pc = "validate" =>
       (Len(executed) > 0 /\ executed[Len(executed)] = QuestionEntry)
  /\ (ValidatorRan /\ pc \in {"ret", "done"}) =>
       \A j \in 1..Len(assignment_metadata[q_id].required_vars) :
         LET v == assignment_metadata[q_id].required_vars[j] IN
           /\ Has(current_question_errors, <<MISSED_REQ_VAR_FORMAT, v>>)
                <=> global_vars[v] = Absent
           /\ Has(current_question_errors, <<ASSERTION_FAILED_PREFIX, "AssertionError">>)
                <=> (global_vars[v] # Absent /\ global_vars[v] # 5)

C9_witness ==
  /\ Finished /\ ValidatorRan /\ q_id = "q1"
  /\ global_vars["x"] = 7
  /\ Has(current_question_errors, <<ASSERTION_FAILED_PREFIX, "AssertionError">>)

\* C10: in interactive mode check returns no value, whichever way it ends.
C10_InteractiveReturnsNone ==
  ~is_running_from_autograder =>
    /\ retval \in {"pending", "None"}
    /\ Finished => retval = "None"

C10_witness ==
  /\ Finished /\ ~is_running_from_autograder
  /\ state = "EXECUTED_WITH_ISSUES" /\ ~ValidatorRan
  /\ retval = "None"

\* C7: a call whose snippet ran longer than CODE_MAX_EXECUTION_TIME has
\* appended exactly one timeout error (error_prefix, then the timeout
\* message) to errors_list when it returns to its caller, and a call whose
\* snippet stayed under the deadline has appended none, whatever timers
\* earlier calls started.
TimeoutEntries(from) ==
  { k \in (from + 1)..Len(t_errors) :
      t_errors[k] = <<CUR_QUESTION_ERROR_PREFIX, TIMEOUT_MSG>> }

C7_ExactlyOneTimeoutError ==
  /\ (t_pc = "returned" /\ t_code.time > CODE_MAX_EXECUTION_TIME) =>
       Cardinality(TimeoutEntries(t_mark)) = 1
  /\ (t_pc = "returned" /\ t_code.time < CODE_MAX_EXECUTION_TIME) =>
       Cardinality(TimeoutEntries(t_mark)) = 0

\* C8: every execute_code call that has begun eventually gives control
\* back to its caller.
C8_ExecuteAlwaysReturns == (t_pc = "exec") ~> (t_pc \in {"returned", "raised"})

\* ------------------------------------------------------------------------
\* C11: a configuration fault (question identifier missing from the
\* metadata, package not initialized, notebook or metadata file missing)
\* makes check raise the matching exception before any notebook cell is
\* executed: once the call has left its first step it has raised, the
\* execution log is empty and the environment was never bound; and a
\* configuration exception is raised only for such a fault.
UsedNbPath ==
  IF overwrite_student_nb_path # NoPath THEN overwrite_student_nb_path ELSE NB_FILE_PATH
Uninitialized == UsedNbPath = NoPath
NotebookMissing == UsedNbPath \notin files
MetadataMissing == MetadataPath(NbDir) \notin files
QidMissing == q_id \notin {"q1", "q2"}
ConfigurationFault == Uninitialized \/ NotebookMissing \/ MetadataMissing \/ QidMissing

C11_ConfigurationFaultRaisesBeforeAnyCell ==
  /\ (ConfigurationFault /\ pc # "start") =>
       /\ pc = "raised"
       /\ exc \in ConfigurationExceptions
       /\ executed = <<>>
       /\ global_vars = EmptyEnv
       /\ retval = "pending"
  /\ (Uninitialized /\ pc # "start") => exc = "InitializationError"
  /\ (~Uninitialized /\ (NotebookMissing \/ MetadataMissing) /\ pc # "start") =>
       exc = "FileNotFoundError"
  /\ (~Uninitialized /\ ~NotebookMissing /\ ~MetadataMissing /\ QidMissing
        /\ pc # "start") => exc = "AssertionError"
  /\ (pc = "raised" /\ exc \in ConfigurationExceptions) => ConfigurationFault

C11_witness ==
  /\ pc = "raised"
  /\ exc = "FileNotFoundError"
  /\ MetadataMissing /\ ~NotebookMissing /\ ~QidMissing
  /\ \E k \in 1..Len(notebook) : IsExecutablePriorCell(notebook[k])
  /\ executed = <<>>

C11_witness_uninitialized ==
  /\ pc = "raised"
  /\ exc = "InitializationError"
  /\ files = AllFiles /\ ~QidMissing

C11_witness_qid ==
  /\ pc = "raised"
  /\ exc = "AssertionError"
  /\ overwrite_student_nb_path = NbPath /\ NB_FILE_PATH = NoPath

\* ------------------------------------------------------------------------
\* C12: whenever the snippet raises while it executes, execute_code
\* returns to its caller, errors_list has grown by exactly the entry
\* <<error_prefix, message>>, the bindings made before the fault are in the
\* environment, and the comparison of the snapshots was performed (a name
\* shadowing a built-in before the fault has its warning).
AppendedTo(before, after) == SubSeq(after, Len(before) + 1, Len(after))
ExecRun == PyExec(x_code, x_global_vars)
ExecDone == x_pc \in {"returned", "raised"}
RuntimeFault == ExecRun.fault \in {"Exception", "BaseException"}
NewBuiltins ==
  { n \in Names : /\ x_global_vars[n] = Absent
                  /\ ExecRun.env[n] # Absent
                  /\ n \in builtin_identifiers }

OwnCodeError ==
  \E k \in 1..Len(current_question_errors) :
    current_question_errors[k][1] = CUR_QUESTION_ERROR_PREFIX

C13_InteractiveStopsOnQuestionErrors ==
  /\ (~is_running_from_autograder /\ QuestionExecuted /\ OwnCodeError
        /\ pc \in {"validate", "ret", "done"}) =>
       /\ pc # "validate"
       /\ state = "EXECUTED_WITH_ISSUES"
       /\ Has(printed, "FEEDBACK")
       /\ ~ValidatorRan
       /\ \A k \in 1..Len(current_question_errors) :
            current_question_errors[k][1] = CUR_QUESTION_ERROR_PREFIX
  /\ pc = "validate" =>
       (is_running_from_autograder \/ current_question_errors = <<>>)
  /\ (QuestionExecuted /\ pc \in {"ret", "done"}
        /\ (is_running_from_autograder \/ ~OwnCodeError)) => ValidatorRan

C13_witness ==
  /\ Finished
  /\ ~is_running_from_autograder
  /\ QuestionExecuted /\ OwnCodeError
  /\ ~ValidatorRan
  /\ assignment_metadata[q_id].required_funcs # <<>>

C13_witness_automated ==
  /\ Finished
  /\ is_running_from_autograder
  /\ QuestionExecuted /\ OwnCodeError
  /\ ValidatorRan

C13_witness_warning ==
  /\ Finished
  /\ ~is_running_from_autograder
  /\ QuestionExecuted /\ ~OwnCodeError
  /\ current_question_warnings # <<>>
  /\ ValidatorRan

\* ------------------------------------------------------------------------
\* C14: every call of the validator runs its three checks: the question's
\* error list grows by one missing-function entry per required call the
\* code does not use (in list order), then one missing-variable entry per
\* required variable unbound in the environment (in list order), and the
\* assertion snippet is then executed, adding at most one entry, which
\* carries the assertion prefix.
UsesCall(code, f) ==
  code.syntax_ok /\ \E k \in 1..Len(code.body) : f \in code.body[k].calls

MissingCallErrors(code, required) ==
  LET NotUsed(f) == ~UsesCall(code, f)
      missing == SelectSeq(required, NotUsed)
  IN [k \in 1..Len(missing) |-> <<MISSED_REQ_FUNC_FORMAT, missing[k]>>]

MissingVarErrors(env, required) ==
  LET Unbound(v) == env[v] = Absent
      missing == SelectSeq(required, Unbound)
  IN [k \in 1..Len(missing) |-> <<MISSED_REQ_VAR_FORMAT, missing[k]>>]

ValidatorStep ==
  LET code == notebook[found_at + CODE_CELL_OFFSET_STUDENT].source
      md == assignment_metadata[q_id]
      expected == current_question_errors
                    \o MissingCallErrors(code, md.required_funcs)
                    \o MissingVarErrors(global_vars, md.required_vars)
      rest == AppendedTo(expected, current_question_errors')
  IN /\ executed' = Append(executed, AssertionEntry)
     /\ Len(current_question_errors') >= Len(expected)
     /\ SubSeq(current_question_errors', 1, Len(expected)) = expected
     /\ Len(rest) <= 1
     /\ \A k \in 1..Len(rest) : rest[k][1] = ASSERTION_FAILED_PREFIX

C14_ValidateRunsAllChecks == [][pc = "validate" => ValidatorStep]_vars

\* ------------------------------------------------------------------------
\* C15: after execute_code, the "modified" warnings it appended are one
\* for each name that was bound before the run and is bound to an unequal
\* value after it, and none for any other name (a name whose list was only
\* changed in place is the subject of C16 and is left open here).
Count(seq, e) == Cardinality({ k \in 1..Len(seq) : seq[k] = e })
ExecWarnings == AppendedTo(x_warnings_list, x_result.warnings_list)
Rebound(n) ==
  /\ x_global_vars[n] # Absent
  /\ ExecRun.env[n] # Absent
  /\ x_global_vars[n] # ExecRun.env[n]
ChangedInPlace(n) ==
  /\ x_global_vars[n] = ListRef
  /\ ExecRun.env[n] = ListRef
  /\ x_global_vars[ObjCell] # ExecRun.env[ObjCell]

C15_ModifiedWarningsExact ==
  ExecDone =>
    \A n \in Names :
      /\ Rebound(n) => Count(ExecWarnings, <<"Global variable modified", n>>) = 1
      /\ (~Rebound(n) /\ ~ChangedInPlace(n)) =>
           Count(ExecWarnings, <<"Global variable modified", n>>) = 0

\* ------------------------------------------------------------------------
\* C16: a name bound to the same list before and after the run, whose list
\* does not have the content it had when the snapshot was taken, gets a
\* "modified" warning.
C16_InPlaceMutationWarned ==
  ExecDone =>
    \A n \in Names :
      ChangedInPlace(n) => Has(ExecWarnings, <<"Global variable modified", n>>)

\* ------------------------------------------------------------------------
\* C17: a call whose snippet deleted a name that was bound before the run
\* returns to its caller.
DeletedNames ==
  { n \in Names : x_global_vars[n] # Absent /\ ExecRun.env[n] = Absent }

C17_DeletionDoesNotRaise ==
  (x_pc \notin {"idle", "call"} /\ DeletedNames # {}) => x_pc = "returned"

\* ------------------------------------------------------------------------
\* C18: after execute_code, the "built-in modified" warnings it appended
\* are one for each built-in identifier that was unbound before the run and
\* is bound after it, and none for any other name.
C18_BuiltinWarningsExact ==
  ExecDone =>
    \A n \in Names :
      Count(ExecWarnings, <<"Built-in function modified", n>>) =
        IF n \in NewBuiltins THEN 1 ELSE 0

\* ------------------------------------------------------------------------
\* C19: when execute_code has returned or raised, none of the timers
\* started so far is armed; while a call runs, the only timer that can be
\* armed is its own, so at most one timer is pending at any moment.
ArmedTimers == { k \in 1..Len(t_timers) : t_timers[k].state = "armed" }

C19_TimerCancelledOnEveryExit ==
  /\ t_pc \in {"idle", "returned", "raised"} => ArmedTimers = {}
  /\ Cardinality(ArmedTimers) <= 1
  /\ \A k \in ArmedTimers : k = t_calls /\ t_pc = "exec"

C19_witness ==
  /\ t_pc = "raised"
  /\ t_code.time < CODE_MAX_EXECUTION_TIME
  /\ t_timers[t_calls].state = "cancelled"

C19_witness_next_call ==
  /\ t_calls = 2
  /\ t_pc = "exec"
  /\ t_timers[1].state = "cancelled"
  /\ t_timers[2].state = "armed"
  /\ t_timers[2].age = CODE_MAX_EXECUTION_TIME

\* ------------------------------------------------------------------------
\* C20: in every check call the environment is the one obtained by running
\* the snippets executed so far in this call, in order, each on the
\* environment the previous one left, starting from the empty environment:
\* all executions of a call share one environment, and nothing bound by an
\* earlier call is in it.
SnippetOf(entry) ==
  IF entry[1] = "assertion" THEN assignment_metadata[q_id].assertions
  ELSE notebook[entry[2]].source

RECURSIVE ReplayFrom(_, _)
ReplayFrom(k, env) ==
  IF k > Len(executed) THEN env
  ELSE ReplayFrom(k + 1, PyExec(SnippetOf(executed[k]), env).env)

LocalsCreated ==
  /\ pc \notin {"start", "idle"}
  /\ ~(pc = "raised" /\ exc \in ConfigurationExceptions)

C20_OneEnvironmentPerCall ==
  LocalsCreated => global_vars = ReplayFrom(1, EmptyEnv)

C20_witness ==
  /\ calls = 2
  /\ prev_global_vars["x"] # Absent
  /\ Finished
  /\ Len(executed) >= 1
  /\ global_vars["x"] = Absent
  /\ global_vars["len"] # Absent

C20_witness_shared ==
  /\ Finished
  /\ ValidatorRan
  /\ Len(executed) = 3
  /\ executed[1] = <<"cell", 1>>
  /\ notebook[1].source.body = <<Assign("len", 42)>>
  /\ global_vars["len"] = 42
  /\ global_vars["x"] = 5

\* ------------------------------------------------------------------------
\* C21: two calls of the validator with the same code, the same
\* requirements, an equal environment, fresh empty lists and an assertion
\* snippet that binds, deletes and mutates nothing end the same way and
\* leave the same warning list and the same error list.
PureSnippet(code) ==
  \A k \in 1..Len(code.body) : code.body[k].op \notin {"assign", "del", "append"}

C21_ValidateIdempotent ==
  (v_pc = "done" /\ PureSnippet(v_assertions)) =>
     /\ v_first.outcome = v_second.outcome
     /\ v_first.exc = v_second.exc
     /\ v_first.warnings_list = v_second.warnings_list
     /\ v_first.errors_list = v_second.errors_list

C21_witness ==
  /\ v_pc = "done"
  /\ PureSnippet(v_assertions)
  /\ v_global_vars["__builtins__"] = Absent
  /\ v_second.global_vars = v_first.global_vars
  /\ Len(v_first.errors_list) = 3
  /\ v_first.errors_list[3][1] = ASSERTION_FAILED_PREFIX
  /\ v_second.errors_list = v_first.errors_list

C21_witness_impure ==
  /\ v_pc = "done"
  /\ ~PureSnippet(v_assertions)
  /\ v_first.warnings_list # v_second.warnings_list

\* ------------------------------------------------------------------------
\* C22: for a snippet that compiles, _does_code_use returns true exactly
\* when some node of the tree, at whatever depth, is a call whose callee
\* reads as the dotted name asked for, or a binary, boolean or unary
\* operator node whose operator class has the name asked for.
RECURSIVE Subnodes(_)
Subnodes(node) ==
  {node} \cup UNION { Subnodes(node.children[k]) : k \in 1..Len(node.children) }

\* The dotted name a callee reads as: the attributes after the root, the
\* root contributing its identifier when it is a plain name.
RECURSIVE DottedNameChain(_)
DottedNameChain(callee) ==
  CASE callee.kind = "Name" -> callee.label
    [] callee.kind = "Attribute" -> DottedNameChain(callee.children[1]) \o "." \o callee.label
    [] OTHER -> ""

NamedCall(node, name) ==
  node.kind = "Call" /\ DottedNameChain(node.children[1]) = name
NamedOperator(node, name) ==
  node.kind \in {"BinOp", "BoolOp", "UnaryOp"} /\ node.label = name

C22_UsesIffCallOrOperatorInTree ==
  /\ (u_pc = "returned") =>
       (u_found <=> \E node \in Subnodes(u_code_snippet.tree) :
                      NamedCall(node, u_name) \/ NamedOperator(node, u_name))
  /\ (u_pc \notin {"idle", "call"} /\ u_code_snippet.syntax_ok) => u_pc = "returned"

\* The call f() that is the argument of a call of g is found.
C22_witness ==
  /\ u_pc = "returned"
  /\ u_name = "f"
  /\ u_found
  /\ u_code_snippet.tree = Module(<<ExprStmt(Call(Name("g"), <<Call(Name("f"), <<>>)>>))>>)

\* x += ... and a comparison are not operator nodes of the three kinds.
C22_witness_not_found ==
  /\ u_pc = "returned"
  /\ u_name = "Add"
  /\ ~u_found
  /\ u_code_snippet.tree = Module(<<AugAssign("Add", "x", Compare("Lt", Name("f"), Literal))>>)

C22_witness_operator ==
  /\ u_pc = "returned"
  /\ u_name = "And"
  /\ u_found

\* A callee that is an attribute of a call result reads as ".f".
C22_witness_partial ==
  /\ u_pc = "returned"
  /\ u_name = ".f"
  /\ u_found

\* ------------------------------------------------------------------------
\* C23: no cell whose source holds a check invocation is ever executed by
\* check, be it as a prior cell or as the code cell of the target block.
HoldsCheckInvocation(cell) == cell.source.ref # "none"

C23_NoCheckInvocationExecuted ==
  \A k \in 1..Len(executed) :
    executed[k][1] \in {"cell", "question"} =>
      ~HoldsCheckInvocation(notebook[executed[k][2]])

\* ------------------------------------------------------------------------
\* C24: an initialize call that raised has left NB_FILE_PATH and
\* NB_DIR_PATH as they were when it began; in particular, after a first
\* call that raised, get_nb_path and load_metadata_dict without an
\* override path raise InitializationError.
C24_FailedInitializeChangesNothing ==
  /\ in_pc = "raised" =>
       /\ NB_FILE_PATH = in_before[1]
       /\ NB_DIR_PATH = in_before[2]
  /\ (in_pc = "raised" /\ in_calls = 1) =>
       /\ GetNbPath.exc = "InitializationError"
       /\ LoadMetadataDict(NoDir) = "InitializationError"

====
